---- MODULE Spec2Model ----
(***************************************************************************)
(* Model of wodoo/buildapi.py: building a wheel or an sdist from an Odoo   *)
(* addon directory.                                                        *)
(*                                                                         *)
(* Text is a sequence of tokens.  The characters the code looks at         *)
(* ("-", "+", ":", " ", "/", newline) are always tokens of their own, so   *)
(* str.replace, str.split, str.strip and the header parser can be computed *)
(* token by token.  Join renders a token sequence as one string.           *)
(***************************************************************************)
EXTENDS Integers, Sequences, FiniteSets, TLC

NL == "\n"

RECURSIVE Join(_)
Join(s) == IF s = <<>> THEN "" ELSE Head(s) \o Join(Tail(s))

Last(s) == s[Len(s)]

Front(s) == SubSeq(s, 1, Len(s) - 1)

EmptyMap == [x \in {} |-> <<>>]

Put(f, k, v) == [x \in DOMAIN f \cup {k} |-> IF x = k THEN v ELSE f[x]]

Without(f, k) == [x \in DOMAIN f \ {k} |-> f[x]]

(***************************************************************************)
(* Python string helpers                                                   *)
(***************************************************************************)
\* str.replace(old, new) for a one-character old
RECURSIVE Replace(_, _, _)
Replace(s, old, new) ==
    IF s = <<>> THEN <<>>
    ELSE <<IF Head(s) = old THEN new ELSE Head(s)>> \o Replace(Tail(s), old, new)

Whitespace == {" ", NL}

RECURSIVE LStrip(_, _)
LStrip(s, chars) ==
    IF s # <<>> /\ Head(s) \in chars THEN LStrip(Tail(s), chars) ELSE s

RECURSIVE RStrip(_, _)
RStrip(s, chars) ==
    IF s # <<>> /\ Last(s) \in chars THEN RStrip(Front(s), chars) ELSE s

\* str.strip()
Strip(s) == RStrip(LStrip(s, Whitespace), Whitespace)

\* index of the first sep in s, 0 when there is none
RECURSIVE Find(_, _, _)
Find(s, sep, i) ==
    IF i > Len(s) THEN 0
    ELSE IF s[i] = sep THEN i
    ELSE Find(s, sep, i + 1)

\* str.split(sep): "".split(sep) is [""], never []
RECURSIVE Split(_, _)
Split(s, sep) ==
    LET i == Find(s, sep, 1) IN
    IF i = 0 THEN <<s>>
    ELSE <<SubSeq(s, 1, i - 1)>> \o Split(SubSeq(s, i + 1, Len(s)), sep)

(***************************************************************************)
(* email.message.Message: a sequence of <<key, value>> headers             *)
(***************************************************************************)
RECURSIVE MsgIndex(_, _, _)
MsgIndex(msg, key, i) ==
    IF i > Len(msg) THEN 0
    ELSE IF msg[i][1] = key THEN i
    ELSE MsgIndex(msg, key, i + 1)

HasHeader(msg, key) == MsgIndex(msg, key, 1) # 0

\* msg[key]: the value of the first header named key
MsgGet(msg, key) == msg[MsgIndex(msg, key, 1)][2]

\* msg.replace_header(key, value): the first header named key is replaced
ReplaceHeader(msg, key, value) ==
    [msg EXCEPT ![MsgIndex(msg, key, 1)] = <<key, value>>]

\* Generator(...).flatten(msg): "Key: value" lines, a blank line, no payload
RECURSIVE Flatten(_)
Flatten(msg) ==
    IF msg = <<>> THEN <<NL>>
    ELSE <<Head(msg)[1], ":", " ">> \o Head(msg)[2] \o <<NL>> \o Flatten(Tail(msg))

\* the header lines of a text: the lines before the first blank line
RECURSIVE HeaderLines(_)
HeaderLines(lines) ==
    IF lines = <<>> \/ Head(lines) = <<>> THEN <<>>
    ELSE <<Head(lines)>> \o HeaderLines(Tail(lines))

ParseHeaderLine(line) ==
    LET i == Find(line, ":", 1) IN
    <<Join(SubSeq(line, 1, i - 1)), LStrip(SubSeq(line, i + 1, Len(line)), {" "})>>

\* HeaderParser().parse(fp)
ParseHeaders(text) ==
    LET lines == HeaderLines(Split(text, NL)) IN
    [i \in 1..Len(lines) |-> ParseHeaderLine(lines[i])]

(***************************************************************************)
(* State                                                                   *)
(***************************************************************************)
VARIABLES
    fs,          \* the directories: absolute path |-> [files, scm]
    cwd,         \* the working directory of the process
    pc,          \* position of the running build, "idle" between builds
    args,        \* arguments of the running build
    addon_name,  \* local of _build_wheel / _build_sdist
    metadata,    \* local of _build_wheel / _build_sdist
    tmp,         \* the temporary directories that exist: name |-> tree
    tmpdir,      \* name of the running build's TemporaryDirectory
    dist_info_dirname, \* local of _build_wheel
    out,         \* the output directory: file name |-> archive
    exc,         \* the exception that is propagating, "none" without one
    ret,         \* the values returned by the build
    scm_files,   \* what _scm_ls_files returned to _copy_to in this build
    origin,      \* Name and Version of the sdist build an extracted directory came from
    nbuilds      \* number of builds started

vars == <<fs, cwd, pc, args, addon_name, metadata, tmp, tmpdir,
          dist_info_dirname, out, exc, ret, scm_files, origin, nbuilds>>

MaxBuilds == 2

(***************************************************************************)
(* Paths                                                                   *)
(***************************************************************************)
\* a path argument: absolute or relative to the working directory
AbsPath(parts) == [abs |-> TRUE, parts |-> parts]

RelPath(parts) == [abs |-> FALSE, parts |-> parts]

RECURSIVE Normalize(_, _)
Normalize(parts, acc) ==
    IF parts = <<>> THEN acc
    ELSE IF Head(parts) = "." THEN Normalize(Tail(parts), acc)
    ELSE IF Head(parts) = ".."
        THEN Normalize(Tail(parts), IF acc = <<>> THEN acc ELSE Front(acc))
    ELSE Normalize(Tail(parts), Append(acc, Head(parts)))

\* Path.resolve(): absolute, without "." and ".."
Resolve(wd, p) == Normalize((IF p.abs THEN <<>> ELSE wd) \o p.parts, <<>>)

\* Path.name of an absolute path
PathName(parts) == IF parts = <<>> THEN "" ELSE Last(parts)

\* the text git prints for a path, and Path(text)
RECURSIVE PathText(_)
PathText(p) ==
    IF Len(p) <= 1 THEN p ELSE <<Head(p), "/">> \o PathText(Tail(p))

RECURSIVE DropEmpty(_)
DropEmpty(ss) ==
    IF ss = <<>> THEN <<>>
    ELSE (IF Head(ss) = <<>> \/ Head(ss) = <<".">> THEN <<>> ELSE <<Join(Head(ss))>>)
         \o DropEmpty(Tail(ss))

ParsePath(text) == DropEmpty(Split(text, "/"))

PKG_INFO == <<"PKG-INFO">>

PYPROJECT_TOML == <<"pyproject.toml">>

MANIFEST == <<"__manifest__.py">>

DirExists(d) == d \in DOMAIN fs

FileExists(d, f) == DirExists(d) /\ f \in DOMAIN fs[d].files

\* the directories of a tree of files: every proper prefix of a file's path
DirsOf(files) == UNION {{SubSeq(f, 1, n) : n \in 1..(Len(f) - 1)} : f \in DOMAIN files}

(***************************************************************************)
(* Naming                                                                  *)
(***************************************************************************)
TAG == <<"py3", "-", "none", "-", "any">>

\* the wheel name without the replacement of "-" in Name
_get_wheel_name_no_replace(md) ==
    Join(MsgGet(md, "Name") \o <<"-">> \o MsgGet(md, "Version")
         \o <<"-">> \o TAG \o <<".whl">>)

_get_wheel_name(md) ==
    Join(Replace(MsgGet(md, "Name"), "-", "_") \o <<"-">> \o MsgGet(md, "Version")
         \o <<"-">> \o TAG \o <<".whl">>)

_get_sdist_base_name(md) ==
    Join(MsgGet(md, "Name") \o <<"-">> \o MsgGet(md, "Version"))

DistInfoDirname(md) ==
    Join(Replace(MsgGet(md, "Name"), "-", "_") \o <<"-">> \o MsgGet(md, "Version")
         \o <<".dist-info">>)

\* the name of the path as given, not resolved
_get_addon_name_unresolved(addon_dir) == PathName(addon_dir.parts)

_get_addon_name(addon_dir) == PathName(Resolve(cwd, addon_dir))

(***************************************************************************)
(* Metadata resolution                                                     *)
(***************************************************************************)
NoException == "none"

NoMessage == [exc |-> NoException, some |-> FALSE, msg |-> <<>>]

\* Optional[str]: None, or a string
NoneStr == [some |-> FALSE, val |-> <<>>]

SomeStr(s) == [some |-> TRUE, val |-> s]

\* the existence test is on addon_dir / "PKG-INFO", the open is on "PKG-INFO",
\* which the system resolves against the working directory
_get_pkg_info_metadata(addon_dir) ==
    IF ~FileExists(Resolve(cwd, addon_dir), PKG_INFO) THEN NoMessage
    ELSE IF ~FileExists(cwd, PKG_INFO)
        THEN [exc |-> "FileNotFoundError", some |-> FALSE, msg |-> <<>>]
    ELSE [exc |-> NoException, some |-> TRUE,
          msg |-> ParseHeaders(fs[cwd].files[PKG_INFO])]

\* "if pkg_info_metadata:" is false for None and for a Message without headers
Truthy(r) == r.some /\ Len(r.msg) > 0

\* _load_pyproject_toml(addon_dir).get("tool", {}).get("wodoo", {}).get("options", {})
\*   .get("odoo_version_override")
OdooVersionOverride(d) ==
    IF FileExists(d, PYPROJECT_TOML) /\ Len(fs[d].files[PYPROJECT_TOML]) = 3
        THEN SomeStr(<<fs[d].files[PYPROJECT_TOML][3]>>)
    ELSE NoneStr

ManifestOf(version) == <<"version", "=", version>>

BadManifest == <<"syntax", " ", "error">>

DefaultSeries == "12"

\* setuptools_odoo.get_addon_metadata: Name and Version from the manifest of the addon
get_addon_metadata(d, odoo_version_override) ==
    IF ~FileExists(d, MANIFEST) \/ fs[d].files[MANIFEST] = BadManifest
        THEN [exc |-> "MetadataError", msg |-> <<>>]
    ELSE LET series == IF odoo_version_override.some
                       THEN Join(odoo_version_override.val) ELSE DefaultSeries
         IN [exc |-> NoException,
             msg |-> << <<"Metadata-Version", <<"2.1">> >>,
                        <<"Name", <<"odoo" \o series, "-", "addon", "-", PathName(d)>> >>,
                        <<"Version", <<series, ".0.", fs[d].files[MANIFEST][3]>> >> >>]

\* the resolver that forgets the local version identifier
_get_metadata_no_suffix(addon_dir, local_version_identifier) ==
    LET pkg_info_metadata == _get_pkg_info_metadata(addon_dir)
        d == Resolve(cwd, addon_dir)
        extracted == get_addon_metadata(d, OdooVersionOverride(d))
    IN  IF pkg_info_metadata.exc # NoException
            THEN [exc |-> pkg_info_metadata.exc, msg |-> <<>>]
        ELSE IF Truthy(pkg_info_metadata)
            THEN [exc |-> NoException, msg |-> pkg_info_metadata.msg]
        ELSE extracted

_get_metadata(addon_dir, local_version_identifier) ==
    LET pkg_info_metadata == _get_pkg_info_metadata(addon_dir)
        d == Resolve(cwd, addon_dir)
        extracted == get_addon_metadata(d, OdooVersionOverride(d))
    IN  IF pkg_info_metadata.exc # NoException
            THEN [exc |-> pkg_info_metadata.exc, msg |-> <<>>]
        ELSE IF Truthy(pkg_info_metadata)
            THEN [exc |-> NoException, msg |-> pkg_info_metadata.msg]
        ELSE IF extracted.exc # NoException THEN extracted
        ELSE IF local_version_identifier.some /\ local_version_identifier.val # <<>>
            THEN [exc |-> NoException,
                  msg |-> ReplaceHeader(extracted.msg, "Version",
                              MsgGet(extracted.msg, "Version") \o <<"+">>
                              \o local_version_identifier.val)]
        ELSE extracted

(***************************************************************************)
(* Staging tree: the directories and files below a temporary directory     *)
(***************************************************************************)
EmptyTree == [dirs |-> {}, files |-> EmptyMap]

Mkdir(tree, p) == [tree EXCEPT !.dirs = @ \cup {p}]

\* Path.mkdir(parents=True)
MkdirParents(tree, p) ==
    [tree EXCEPT !.dirs = @ \cup {SubSeq(p, 1, n) : n \in 1..Len(p)}]

WriteFile(tree, p, content) == [tree EXCEPT !.files = Put(@, p, content)]

_write_metadata(tree, path, msg) == WriteFile(tree, path, Flatten(msg))

\* wodoo.__version__, which the Generator header of WHEEL embeds
WodooVersion == "1.0"

_prepare_wheel_metadata ==
    << <<"Wheel-Version", <<"1.0">> >>,
       <<"Generator", <<"Wodoo", " ", WodooVersion>> >>,
       <<"Root-Is-Purelib", <<"true">> >>,
       <<"Tag", TAG>> >>

_make_dist_info(md, tree) ==
    LET dist_info_path == <<DistInfoDirname(md)>>
        t1 == Mkdir(tree, dist_info_path)
        t2 == _write_metadata(t1, dist_info_path \o <<"WHEEL">>, _prepare_wheel_metadata)
        t3 == _write_metadata(t2, dist_info_path \o <<"METADATA">>, md)
    IN  WriteFile(t3, dist_info_path \o <<"top_level.txt">>, <<"odoo">>)

_make_pkg_info(md, tree, dst) == _write_metadata(tree, dst \o PKG_INFO, md)

\* unlink each path that exists
_ensure_absent(tree, paths) ==
    [tree EXCEPT !.files = [f \in DOMAIN @ \ paths |-> @[f]]]

(***************************************************************************)
(* File selection                                                          *)
(***************************************************************************)
\* what "git ls-files" prints: one line for each tracked file
RECURSIVE GitOutput(_)
GitOutput(tracked) ==
    IF tracked = <<>> THEN <<>>
    ELSE PathText(Head(tracked)) \o <<NL>> \o GitOutput(Tail(tracked))

_scm_ls_files(d) ==
    IF ~fs[d].scm.ok THEN [exc |-> "NoScmFound", files |-> <<>>]
    ELSE [exc |-> NoException, files |-> Split(Strip(GitOutput(fs[d].scm.tracked)), NL)]

\* shutil.copytree(addon_dir, dst)
CopyTree(d, dst, tree) ==
    [dirs |-> tree.dirs \cup {dst} \cup {dst \o sub : sub \in DirsOf(fs[d].files)},
     files |-> [f \in DOMAIN tree.files \cup {dst \o g : g \in DOMAIN fs[d].files} |->
                  IF \E g \in DOMAIN fs[d].files : f = dst \o g
                  THEN fs[d].files[SubSeq(f, Len(dst) + 1, Len(f))]
                  ELSE tree.files[f]]]

\* the loop of _copy_to over scm_files; it stops at the first file that fails
RECURSIVE CopyFiles(_, _, _, _)
CopyFiles(d, dst, files, tree) ==
    IF files = <<>> THEN [exc |-> NoException, tree |-> tree]
    ELSE LET f == ParsePath(Head(files))
             dstd == dst \o Front(f)
             t1 == IF dstd \in tree.dirs THEN tree ELSE MkdirParents(tree, dstd)
         IN  IF f = <<>> \/ f \in DirsOf(fs[d].files)
                 THEN [exc |-> "IsADirectoryError", tree |-> t1]
             ELSE IF f \notin DOMAIN fs[d].files
                 THEN [exc |-> "FileNotFoundError", tree |-> t1]
             ELSE CopyFiles(d, dst, Tail(files),
                            WriteFile(t1, dstd \o <<Last(f)>>, fs[d].files[f]))

NotAsked == [asked |-> FALSE, files |-> <<>>]

\* the selector that copies the whole directory when there is no version control
_copy_to_fallback(addon_dir, dst, tree) ==
    LET d == Resolve(cwd, addon_dir)
        pkg_info_metadata == _get_pkg_info_metadata(addon_dir)
        ls == _scm_ls_files(d)
    IN  IF pkg_info_metadata.exc # NoException
            THEN [exc |-> pkg_info_metadata.exc, tree |-> tree, scm |-> NotAsked]
        ELSE IF Truthy(pkg_info_metadata)
            THEN [exc |-> NoException, tree |-> CopyTree(d, dst, tree), scm |-> NotAsked]
        ELSE IF ls.exc # NoException
            THEN [exc |-> NoException, tree |-> CopyTree(d, dst, tree),
                  scm |-> [asked |-> TRUE, files |-> <<>>]]
        ELSE CopyFiles(d, dst, ls.files, Mkdir(tree, dst))
             @@ [scm |-> [asked |-> TRUE, files |-> ls.files]]

_copy_to(addon_dir, dst, tree) ==
    LET d == Resolve(cwd, addon_dir)
        pkg_info_metadata == _get_pkg_info_metadata(addon_dir)
        ls == _scm_ls_files(d)
    IN  IF pkg_info_metadata.exc # NoException
            THEN [exc |-> pkg_info_metadata.exc, tree |-> tree, scm |-> NotAsked]
        ELSE IF Truthy(pkg_info_metadata)
            THEN [exc |-> NoException, tree |-> CopyTree(d, dst, tree), scm |-> NotAsked]
        ELSE IF ls.exc # NoException
            THEN [exc |-> ls.exc, tree |-> tree, scm |-> [asked |-> TRUE, files |-> <<>>]]
        ELSE CopyFiles(d, dst, ls.files, Mkdir(tree, dst))
             @@ [scm |-> [asked |-> TRUE, files |-> ls.files]]

(***************************************************************************)
(* Archives                                                                *)
(***************************************************************************)
\* WheelFile(...).write_files(tmpdir): every file of the staging tree
WheelArchive(tree) == [complete |-> TRUE, files |-> tree.files]

\* tf.add(sdist_tmpdir, arcname=sdist_name): the files below sdist_tmpdir
SdistArchive(tree, sdist_name) ==
    [complete |-> TRUE,
     files |-> [f \in {g \in DOMAIN tree.files : Len(g) > 1 /\ g[1] = sdist_name} |->
                  tree.files[f]]]

\* what an interrupted write leaves behind
PartialArchive == [complete |-> FALSE, files |-> EmptyMap]

(***************************************************************************)
(* Initial file system                                                     *)
(***************************************************************************)
HOME == <<"home">>

ADDON == <<"w", "addon_1">>

EXTRACT_ROOT == "x"

MODEL_FILE == <<"models", "m.py">>

GONE_FILE == <<"gone.py">>

NOTES_FILE == <<"notes.txt">>

\* the record of an earlier sdist of the addon
AddonPkgInfo ==
    Flatten(<< <<"Metadata-Version", <<"2.1">> >>,
               <<"Name", <<"odoo12", "-", "addon", "-", "addon_1">> >>,
               <<"Version", <<"12", ".0.", "0.9.0">> >> >>)

\* the record of an unrelated project
HomePkgInfo ==
    Flatten(<< <<"Metadata-Version", <<"2.1">> >>,
               <<"Name", <<"other", "-", "pkg">> >>,
               <<"Version", <<"3.1">> >> >>)

OverrideToml == <<"odoo_version_override", "=", "13">>

NoScm == [ok |-> FALSE, tracked |-> <<>>]

Scm(tracked) == [ok |-> TRUE, tracked |-> tracked]

\* no repository, nothing tracked, tracked files, a tracked file deleted from disk
ScmStates(hasToml) ==
    {NoScm, Scm(<<>>), Scm(<<MANIFEST>>), Scm(<<MANIFEST, GONE_FILE>>),
     Scm(<<MANIFEST, MODEL_FILE>> \o (IF hasToml THEN <<PYPROJECT_TOML>> ELSE <<>>))}

AddonFiles(manifest, hasToml, pkgInfo) ==
    LET base == Put(Put(Put(EmptyMap, MANIFEST, manifest), MODEL_FILE, <<"src">>),
                    NOTES_FILE, <<"draft">>)
        withToml == IF hasToml THEN Put(base, PYPROJECT_TOML, OverrideToml) ELSE base
    IN  IF pkgInfo = "absent" THEN withToml
        ELSE Put(withToml, PKG_INFO, IF pkgInfo = "empty" THEN <<>> ELSE AddonPkgInfo)

NoArgs == [kind |-> "none", addon_dir |-> RelPath(<<>>), dist_info_only |-> FALSE,
           local_version_identifier |-> NoneStr]

NoReturn == [wheel_name |-> "", dist_info_dirname |-> "", sdist_tar_name |-> "",
             addon_name |-> ""]

NoOrigin == [dir |-> <<>>, Name |-> <<>>, Version |-> <<>>]

Init ==
    /\ \E manifest \in {ManifestOf("1.0.0"), BadManifest}, hasToml \in BOOLEAN,
          pkgInfo \in {"absent", "record", "empty"}, homePkgInfo \in BOOLEAN :
         \E scm \in ScmStates(hasToml) :
           fs = Put(Put(EmptyMap,
                        HOME, [files |-> IF homePkgInfo
                                         THEN Put(EmptyMap, PKG_INFO, HomePkgInfo)
                                         ELSE EmptyMap,
                               scm |-> NoScm]),
                    ADDON, [files |-> AddonFiles(manifest, hasToml, pkgInfo), scm |-> scm])
    /\ cwd = HOME
    /\ pc = "idle"
    /\ args = NoArgs
    /\ addon_name = ""
    /\ metadata = <<>>
    /\ tmp = EmptyMap
    /\ tmpdir = ""
    /\ dist_info_dirname = ""
    /\ out = EmptyMap
    /\ exc = NoException
    /\ ret = NoReturn
    /\ scm_files = NotAsked
    /\ origin = NoOrigin
    /\ nbuilds = 0

(***************************************************************************)
(* The builds, step by step                                                *)
(***************************************************************************)
PathArgs == {RelPath(<<".">>), RelPath(<<"..", "w", "addon_1">>)}
            \cup {AbsPath(d) : d \in DOMAIN fs}

LocalVersionIdentifiers == {NoneStr, SomeStr(<<>>), SomeStr(<<"dev1">>)}

TmpNames == {"tmp_a", "tmp_b"}

Call(wd, a) ==
    /\ pc = "idle"
    /\ nbuilds < MaxBuilds
    /\ wd \in DOMAIN fs
    /\ DirExists(Resolve(wd, a.addon_dir))
    /\ cwd' = wd
    /\ args' = a
    /\ pc' = "resolve"
    /\ nbuilds' = nbuilds + 1
    /\ UNCHANGED <<fs, addon_name, metadata, tmp, tmpdir, dist_info_dirname, out,
                   exc, ret, scm_files, origin>>

\* a call of _build_wheel(addon_dir, wheel_directory, dist_info_only, local_version_identifier)
CallBuildWheel ==
    \E wd \in DOMAIN fs, p \in PathArgs, dio \in BOOLEAN, lvi \in LocalVersionIdentifiers :
        Call(wd, [kind |-> "wheel", addon_dir |-> p, dist_info_only |-> dio,
                  local_version_identifier |-> lvi])

\* a call of _build_sdist(addon_dir, sdist_directory)
CallBuildSdist ==
    \E wd \in DOMAIN fs, p \in PathArgs :
        Call(wd, [kind |-> "sdist", addon_dir |-> p, dist_info_only |-> FALSE,
                  local_version_identifier |-> NoneStr])

\* addon_name, metadata and the archive name, before the temporary directory exists
ResolveMetadata ==
    /\ pc = "resolve"
    /\ LET r == _get_metadata(args.addon_dir, args.local_version_identifier) IN
         /\ addon_name' = _get_addon_name(args.addon_dir)
         /\ metadata' = r.msg
         /\ exc' = r.exc
         /\ pc' = IF r.exc = NoException THEN "enter" ELSE "done"
    /\ UNCHANGED <<fs, cwd, args, tmp, tmpdir, dist_info_dirname, out, ret,
                   scm_files, origin, nbuilds>>

\* with tempfile.TemporaryDirectory() as tmpdir
EnterTmp ==
    /\ pc = "enter"
    /\ \E name \in TmpNames \ DOMAIN tmp :
         /\ tmp' = Put(tmp, name, EmptyTree)
         /\ tmpdir' = name
    /\ pc' = IF args.kind = "wheel" THEN "dist_info" ELSE "copy"
    /\ UNCHANGED <<fs, cwd, args, addon_name, metadata, dist_info_dirname, out, exc,
                   ret, scm_files, origin, nbuilds>>

\* the wheel build that stages the addon in dist-info-only mode too
MakeDistInfo_always_copy ==
    /\ pc = "dist_info"
    /\ tmp' = [tmp EXCEPT ![tmpdir] = _make_dist_info(metadata, @)]
    /\ dist_info_dirname' = DistInfoDirname(metadata)
    /\ pc' = "copy"
    /\ UNCHANGED <<fs, cwd, args, addon_name, metadata, tmpdir, out, exc, ret,
                   scm_files, origin, nbuilds>>

MakeDistInfo ==
    /\ pc = "dist_info"
    /\ tmp' = [tmp EXCEPT ![tmpdir] = _make_dist_info(metadata, @)]
    /\ dist_info_dirname' = DistInfoDirname(metadata)
    /\ pc' = IF args.dist_info_only THEN "emit" ELSE "copy"
    /\ UNCHANGED <<fs, cwd, args, addon_name, metadata, tmpdir, out, exc, ret,
                   scm_files, origin, nbuilds>>

\* where the build copies the addon to
CopyDst ==
    IF args.kind = "wheel" THEN <<"odoo", "addons", addon_name>>
    ELSE <<_get_sdist_base_name(metadata)>>

CopyTo ==
    /\ pc = "copy"
    /\ LET staged == IF args.kind = "wheel"
                     THEN MkdirParents(tmp[tmpdir], <<"odoo", "addons">>)
                     ELSE tmp[tmpdir]
           r == _copy_to(args.addon_dir, CopyDst, staged)
       IN  /\ tmp' = [tmp EXCEPT ![tmpdir] = r.tree]
           /\ scm_files' = r.scm
           /\ exc' = r.exc
           /\ pc' = IF r.exc = NoException THEN "finish" ELSE "exit"
    /\ UNCHANGED <<fs, cwd, args, addon_name, metadata, tmpdir, dist_info_dirname,
                   out, ret, origin, nbuilds>>

\* we don't want pyproject.toml nor PKG-INFO in the wheel
EnsureAbsent ==
    /\ pc = "finish"
    /\ args.kind = "wheel"
    /\ tmp' = [tmp EXCEPT ![tmpdir] =
                 _ensure_absent(@, {CopyDst \o PYPROJECT_TOML, CopyDst \o PKG_INFO})]
    /\ pc' = "emit"
    /\ UNCHANGED <<fs, cwd, args, addon_name, metadata, tmpdir, dist_info_dirname,
                   out, exc, ret, scm_files, origin, nbuilds>>

MakePkgInfo ==
    /\ pc = "finish"
    /\ args.kind = "sdist"
    /\ tmp' = [tmp EXCEPT ![tmpdir] = _make_pkg_info(metadata, @, CopyDst)]
    /\ pc' = "emit"
    /\ UNCHANGED <<fs, cwd, args, addon_name, metadata, tmpdir, dist_info_dirname,
                   out, exc, ret, scm_files, origin, nbuilds>>

\* the archive is written, or the write fails with or without leaving a file
Emit(name, archive) ==
    /\ pc = "emit"
    /\ \/ /\ out' = Put(out, name, archive)
          /\ exc' = NoException
       \/ /\ out' = Put(out, name, PartialArchive)
          /\ exc' = "OSError"
       \/ /\ out' = out
          /\ exc' = "OSError"
    /\ pc' = "exit"
    /\ UNCHANGED <<fs, cwd, args, addon_name, metadata, tmp, tmpdir, dist_info_dirname,
                   ret, scm_files, origin, nbuilds>>

WriteWheel ==
    /\ args.kind = "wheel"
    /\ Emit(_get_wheel_name(metadata), WheelArchive(tmp[tmpdir]))

WriteSdist ==
    /\ args.kind = "sdist"
    /\ Emit(_get_sdist_base_name(metadata) \o ".tar.gz",
            SdistArchive(tmp[tmpdir], _get_sdist_base_name(metadata)))

\* a build that removes its temporary directory only when it succeeds
ExitTmp_keep_on_error ==
    /\ pc = "exit"
    /\ tmp' = IF exc = NoException THEN Without(tmp, tmpdir) ELSE tmp
    /\ ret' = IF exc # NoException THEN NoReturn
              ELSE IF args.kind = "wheel"
                  THEN [wheel_name |-> _get_wheel_name(metadata),
                        dist_info_dirname |-> dist_info_dirname,
                        sdist_tar_name |-> "", addon_name |-> addon_name]
              ELSE [wheel_name |-> "", dist_info_dirname |-> "",
                    sdist_tar_name |-> _get_sdist_base_name(metadata) \o ".tar.gz",
                    addon_name |-> addon_name]
    /\ pc' = "done"
    /\ UNCHANGED <<fs, cwd, args, addon_name, metadata, tmpdir, dist_info_dirname,
                   out, exc, scm_files, origin, nbuilds>>

\* the end of the with block: the temporary directory is removed, then the
\* build returns or the exception propagates
ExitTmp ==
    /\ pc = "exit"
    /\ tmp' = Without(tmp, tmpdir)
    /\ ret' = IF exc # NoException THEN NoReturn
              ELSE IF args.kind = "wheel"
                  THEN [wheel_name |-> _get_wheel_name(metadata),
                        dist_info_dirname |-> dist_info_dirname,
                        sdist_tar_name |-> "", addon_name |-> addon_name]
              ELSE [wheel_name |-> "", dist_info_dirname |-> "",
                    sdist_tar_name |-> _get_sdist_base_name(metadata) \o ".tar.gz",
                    addon_name |-> addon_name]
    /\ pc' = "done"
    /\ UNCHANGED <<fs, cwd, args, addon_name, metadata, tmpdir, dist_info_dirname,
                   out, exc, scm_files, origin, nbuilds>>

Forget ==
    /\ pc' = "idle"
    /\ args' = NoArgs
    /\ addon_name' = ""
    /\ metadata' = <<>>
    /\ tmpdir' = ""
    /\ dist_info_dirname' = ""
    /\ out' = EmptyMap
    /\ exc' = NoException
    /\ ret' = NoReturn
    /\ scm_files' = NotAsked

\* the caller has the result; the next build gets an output directory of its own
Return ==
    /\ pc = "done"
    /\ Forget
    /\ UNCHANGED <<fs, cwd, tmp, origin, nbuilds>>

\* the caller unpacks the sdist it got into an emptied directory EXTRACT_ROOT
Extract ==
    /\ pc = "done"
    /\ args.kind = "sdist"
    /\ exc = NoException
    /\ LET archive == out[ret.sdist_tar_name]
           root == _get_sdist_base_name(metadata)
           dir == <<EXTRACT_ROOT, root>>
           kept == {d \in DOMAIN fs : d[1] # EXTRACT_ROOT}
           files == [f \in {Tail(g) : g \in DOMAIN archive.files} |->
                       archive.files[<<root>> \o f]]
       IN  /\ fs' = [d \in kept \cup {dir} |->
                       IF d = dir THEN [files |-> files, scm |-> NoScm] ELSE fs[d]]
           /\ origin' = [dir |-> dir, Name |-> MsgGet(metadata, "Name"),
                         Version |-> MsgGet(metadata, "Version")]
    /\ Forget
    /\ UNCHANGED <<cwd, tmp, nbuilds>>

Next ==
    \/ CallBuildWheel
    \/ CallBuildSdist
    \/ ResolveMetadata
    \/ EnterTmp
    \/ MakeDistInfo
    \/ CopyTo
    \/ EnsureAbsent
    \/ MakePkgInfo
    \/ WriteWheel
    \/ WriteSdist
    \/ ExitTmp
    \/ Return
    \/ Extract

Spec == Init /\ [][Next]_vars

(***************************************************************************)
(* Properties                                                              *)
(***************************************************************************)
\* the directory the addon_dir argument of the running build names
AddonDir == Resolve(cwd, args.addon_dir)

Returned == pc = "done" /\ exc = NoException

WheelReturned == Returned /\ args.kind = "wheel"

Underscored(name) == [i \in 1..Len(name) |-> IF name[i] = "-" THEN "_" ELSE name[i]]

\* the staged files at or below path p
Below(tree, p) == {f \in DOMAIN tree.files : Len(f) > Len(p) /\ SubSeq(f, 1, Len(p)) = p}

\* the lines of a text file
Lines(text) == {Split(text, NL)[i] : i \in 1..Len(Split(text, NL))}

\* C1: when _build_wheel returns, the wheel name is
\* '<Name with every - replaced by _>-<Version>-py3-none-any.whl' for the Name and
\* Version of the resolved metadata, and a file of that name is in wheel_directory.
C1_WheelNameAndFile ==
    WheelReturned =>
        /\ ret.wheel_name = Join(Underscored(MsgGet(metadata, "Name"))) \o "-"
                            \o Join(MsgGet(metadata, "Version")) \o "-py3-none-any.whl"
        /\ ret.wheel_name \in DOMAIN out
        /\ out[ret.wheel_name].complete

\* a wheel of a version-controlled addon with a resolvable manifest was built,
\* and its Name has a "-" to replace
C1_Witness ==
    /\ WheelReturned
    /\ ~args.dist_info_only
    /\ scm_files.asked
    /\ ret.wheel_name = "odoo12_addon_addon_1-12.0.1.0.0-py3-none-any.whl"

\* the record in the PKG-INFO file at the root of the addon directory
AddonRecord == ParseHeaders(fs[AddonDir].files[PKG_INFO])

HasAddonRecord == FileExists(AddonDir, PKG_INFO) /\ HasHeader(AddonRecord, "Name")

\* C2: when the addon directory contains a PKG-INFO record, the Name and Version of
\* the wheel file name, of the dist-info directory name and of METADATA are those of
\* that record, for every local_version_identifier, and no override is applied.
C2_PreservedRecordUsed ==
    (WheelReturned /\ HasAddonRecord) =>
        LET name == MsgGet(AddonRecord, "Name")
            version == MsgGet(AddonRecord, "Version")
        IN  /\ MsgGet(metadata, "Name") = name
            /\ MsgGet(metadata, "Version") = version
            /\ ret.wheel_name = Join(Underscored(name)) \o "-" \o Join(version)
                                \o "-py3-none-any.whl"
            /\ ret.dist_info_dirname = Join(Underscored(name)) \o "-" \o Join(version)
                                       \o ".dist-info"

\* what the extraction collaborator returns for the addon directory of the build
BaseMetadata == get_addon_metadata(AddonDir, OdooVersionOverride(AddonDir)).msg

\* the wheel, dist-info and METADATA of the returned build carry this version
VersionEverywhere(version) ==
    LET name == Join(Underscored(MsgGet(metadata, "Name")))
        dist_info == name \o "-" \o Join(version) \o ".dist-info"
    IN  /\ MsgGet(metadata, "Version") = version
        /\ ret.wheel_name = name \o "-" \o Join(version) \o "-py3-none-any.whl"
        /\ ret.dist_info_dirname = dist_info
        /\ <<dist_info, "METADATA">> \in DOMAIN out[ret.wheel_name].files
        /\ <<"Version", ":", " ">> \o version
               \in Lines(out[ret.wheel_name].files[<<dist_info, "METADATA">>])

FreshWheelReturned == WheelReturned /\ ~FileExists(AddonDir, PKG_INFO)

\* C3 as stated: a fresh build with a supplied local_version_identifier has the
\* Version '<base-version>+<identifier>' in the wheel name, the dist-info name and
\* METADATA.
C3_Original ==
    (FreshWheelReturned /\ args.local_version_identifier.some) =>
        VersionEverywhere(MsgGet(BaseMetadata, "Version") \o <<"+">>
                          \o args.local_version_identifier.val)

\* C3 amended: the same for a supplied identifier that is not the empty string.
C3_SuffixedVersion ==
    (FreshWheelReturned /\ args.local_version_identifier.some
       /\ args.local_version_identifier.val # <<>>) =>
        VersionEverywhere(MsgGet(BaseMetadata, "Version") \o <<"+">>
                          \o args.local_version_identifier.val)

C3_Witness ==
    /\ FreshWheelReturned
    /\ args.local_version_identifier = SomeStr(<<"dev1">>)
    /\ ret.wheel_name = "odoo12_addon_addon_1-12.0.1.0.0+dev1-py3-none-any.whl"

\* C4: a wheel built from the extracted content of an sdist has the Name and the
\* Version of the sdist build.
C4_RoundTrip ==
    (WheelReturned /\ origin # NoOrigin /\ AddonDir = origin.dir) =>
        /\ MsgGet(metadata, "Name") = origin.Name
        /\ MsgGet(metadata, "Version") = origin.Version

\* a build that reached the file selector (its metadata resolved and it was asked
\* for more than the dist-info) is past _copy_to, for an addon directory without
\* PKG-INFO and without version control
NoScmBuild ==
    /\ pc \in {"finish", "emit", "exit", "done"}
    /\ tmpdir # ""
    /\ ~args.dist_info_only
    /\ ~FileExists(AddonDir, PKG_INFO)
    /\ ~fs[AddonDir].scm.ok

\* C5: without PKG-INFO and with a failing tracked-file query, the wheel build and
\* the sdist build fail with NoScmFound, copy nothing of the addon directory and
\* leave no file in the output directory.
C5_NoScmFound ==
    NoScmBuild =>
        /\ pc \in {"exit", "done"}
        /\ exc = "NoScmFound"
        /\ scm_files.asked
        /\ out = EmptyMap
        /\ ret = NoReturn
        /\ pc = "exit" => CopyDst \notin tmp[tmpdir].dirs /\ Below(tmp[tmpdir], CopyDst) = {}

C5_Witness == NoScmBuild /\ pc = "done" /\ args.kind = "sdist" /\ exc = "NoScmFound"

\* C6: a build that created a temporary directory has removed it when it ends, on
\* every exit path; while it runs its directory is the only one, and the directory
\* is empty when the build gets it.
C6_TmpRemoved ==
    /\ pc \in {"idle", "resolve", "enter", "done"} => tmp = EmptyMap
    /\ pc \in {"dist_info", "copy", "finish", "emit", "exit"} => DOMAIN tmp = {tmpdir}
    /\ (pc = "dist_info" \/ (pc = "copy" /\ args.kind = "sdist")) => tmp[tmpdir] = EmptyTree

\* a build ended with an error raised after its temporary directory was created
C6_Witness == pc = "done" /\ tmpdir # "" /\ exc = "OSError" /\ tmp = EmptyMap

DistInfoFiles(dir) == {<<dir, "WHEEL">>, <<dir, "METADATA">>, <<dir, "top_level.txt">>}

\* C7: in dist-info-only mode the staging tree has only the dist-info directory with
\* WHEEL, METADATA and top_level.txt, the file selector is never invoked, and the
\* dist-info directory name is returned.
C7_DistInfoOnly ==
    (args.kind = "wheel" /\ args.dist_info_only) =>
        LET dir == Join(Underscored(MsgGet(metadata, "Name"))) \o "-"
                   \o Join(MsgGet(metadata, "Version")) \o ".dist-info"
        IN  /\ pc \notin {"copy", "finish"}
            /\ ~scm_files.asked
            /\ pc \in {"emit", "exit"} =>
                   /\ tmp[tmpdir].dirs = {<<dir>>}
                   /\ DOMAIN tmp[tmpdir].files = DistInfoFiles(dir)
            /\ Returned =>
                   /\ ret.dist_info_dirname = dir
                   /\ DOMAIN out[ret.wheel_name].files = DistInfoFiles(dir)

C7_Witness ==
    /\ WheelReturned
    /\ args.dist_info_only
    /\ ret.dist_info_dirname = "odoo12_addon_addon_1-12.0.1.0.0.dist-info"

\* _copy_to has just run for a working copy whose tracked-file query succeeded
CopiedWorkingCopy ==
    /\ \/ pc = "finish"
       \/ pc = "exit" /\ exc \in {"IsADirectoryError", "FileNotFoundError"}
    /\ scm_files.asked
    /\ fs[AddonDir].scm.ok

TrackedSet == {fs[AddonDir].scm.tracked[i] : i \in 1..Len(fs[AddonDir].scm.tracked)}

\* C8: for every tracked-file list, the empty one included, the staged content is
\* exactly the tracked files, each at its relative path, and nothing else.
C8_ExactlyTracked ==
    CopiedWorkingCopy =>
        /\ exc = NoException
        /\ Below(tmp[tmpdir], CopyDst) = {CopyDst \o f : f \in TrackedSet}
        /\ \A f \in TrackedSet :
               f \in DOMAIN fs[AddonDir].files
               /\ tmp[tmpdir].files[CopyDst \o f] = fs[AddonDir].files[f]

\* C9: the addon name returned by _build_wheel and _build_sdist is the final path
\* component of the resolved addon directory, with and without PKG-INFO.
C9_AddonName ==
    Returned =>
        \E d \in DOMAIN fs :
            /\ d = IF args.addon_dir.abs THEN args.addon_dir.parts ELSE AddonDir
            /\ ret.addon_name = d[Len(d)]

\* a build from PKG-INFO, with the addon directory given as "."
C9_Witness ==
    /\ Returned
    /\ args.addon_dir = RelPath(<<".">>)
    /\ HasAddonRecord
    /\ ret.addon_name = "addon_1"

\* C10: when PKG-INFO exists at the root of the addon directory, the record the
\* resolver returns is the content of that file, whatever the working directory;
\* the lookup never fails because the working directory has no PKG-INFO.
C10_RecordOfAddonDir ==
    (pc \notin {"idle", "resolve"} /\ HasAddonRecord) =>
        /\ exc # "FileNotFoundError"
        /\ exc = NoException => metadata = AddonRecord

====
